---- MODULE Spec2Model ----
(***************************************************************************)
(* permagen (src/index.js): a command-line tool that resolves a Firebase   *)
(* configuration kept in ~/.permagenConfig.json, uploads one file to the   *)
(* configured storage bucket under a time-stamped object name, and prints  *)
(* (and optionally copies) the download URL.                               *)
(*                                                                         *)
(* Strings the code takes apart (paths, file names) are sequences of       *)
(* one-character strings.  JSON values are records [type, s, n].  One      *)
(* action is one stretch of main() between two awaits: the prompt a        *)
(* stretch ends with is issued by that action, the answer is the input of  *)
(* the next one.                                                           *)
(***************************************************************************)
EXTENDS Integers, Sequences, FiniteSets, TLC

VARIABLES
    args,        \* process.argv.slice(2)
    file,        \* content of CONFIG_PATH
    pc,          \* where main() is suspended
    branch,      \* the branch of main()'s if-chain that was taken
    config,      \* the value getFirebaseConfig returned to main
    prompts,     \* prompts issued so far (p.confirm / p.text), in order
    answers,     \* the answers given to them, in order
    out,         \* messages printed (p.intro, p.outro, spinner.stop, console.error)
    exitCode,    \* {} while running, {c} once the process has ended with code c
    writes,      \* number of fs.writeFileSync(CONFIG_PATH, ...) calls
    storage,     \* the configuration passed to initializeApp, in a set ({} before)
    filePath,    \* uploadFile: the path after quote stripping
    storageRef,  \* uploadFile: fileNameWithDate, the destination object name
    uploadCalls, \* number of uploadBytes calls
    urlCalls,    \* number of getDownloadURL calls
    downloadURL, \* the URL uploadFile returned, in a set ({} if none)
    clipboard,   \* texts handed to clipboardy.writeSync, in order
    bucket,      \* remote bucket: the object names uploaded so far, in order
    clock,       \* Date.now()
    run,         \* number of the current invocation
    persisted,   \* history: what CONFIG_PATH held when the invocation started
    failed       \* history: a remote call (uploadBytes, getDownloadURL) has failed

vars == <<args, file, pc, branch, config, prompts, answers, out, exitCode,
          writes, storage, filePath, storageRef, uploadCalls, urlCalls,
          downloadURL, clipboard, bucket, clock, run, persisted, failed>>

----------------------------------------------------------------------------
(* Bounds of the model *)

\* longest argument vector
MaxArgs == 2
\* most required fields of a persisted record that deviate from a valid string
MaxBad == 2
\* largest clock value
MaxClock == 2
\* most successive invocations (SpecRepeat)
MaxRuns == 2

----------------------------------------------------------------------------
(* JSON values *)

Undefined == [type |-> "undefined", s |-> <<>>, n |-> 0]
Null      == [type |-> "null", s |-> <<>>, n |-> 0]
Cancel    == [type |-> "symbol", s |-> <<>>, n |-> 0]
Str(s)    == [type |-> "string", s |-> s, n |-> 0]
Num(n)    == [type |-> "number", s |-> <<>>, n |-> n]
Bool(b)   == [type |-> "boolean", s |-> <<>>, n |-> IF b THEN 1 ELSE 0]

\* JavaScript's ToBoolean
Truthy(v) ==
    CASE v.type = "undefined" -> FALSE
      [] v.type = "null"      -> FALSE
      [] v.type = "symbol"    -> TRUE
      [] v.type = "string"    -> v.s /= <<>>
      [] v.type = "number"    -> v.n /= 0
      [] v.type = "boolean"   -> v.n = 1

\* String.prototype.trim, with the blank as the only white space
RECURSIVE TrimStart(_)
TrimStart(s) == IF s /= <<>> /\ Head(s) = " " THEN TrimStart(Tail(s)) ELSE s
RECURSIVE TrimEnd(_)
TrimEnd(s) ==
    IF s /= <<>> /\ s[Len(s)] = " " THEN TrimEnd(SubSeq(s, 1, Len(s) - 1)) ELSE s
Trim(s) == TrimEnd(TrimStart(s))

----------------------------------------------------------------------------
(* The configuration record and the persisted file *)

requiredKeys ==
    <<"apiKey", "authDomain", "projectId", "storageBucket", "messagingSenderId", "appId">>

Keys == {requiredKeys[i] : i \in DOMAIN requiredKeys} \cup {"autoCopy"}

\* {} as JSON.parse returns it: every key absent
EmptyObject == [k \in Keys |-> Undefined]

\* What CONFIG_PATH holds: no file, an empty file, text that is no JSON, the
\* text null, or the text of a JSON object
NoFile      == [kind |-> "none", obj |-> EmptyObject]
EmptyFile   == [kind |-> "empty", obj |-> EmptyObject]
GarbageFile == [kind |-> "garbage", obj |-> EmptyObject]
NullFile    == [kind |-> "null", obj |-> EmptyObject]
ObjectFile(o) == [kind |-> "object", obj |-> o]

\* JSON.stringify drops the keys whose value is undefined or a symbol
Stringify(o) ==
    [k \in Keys |-> IF o[k].type \in {"undefined", "symbol"} THEN Undefined ELSE o[k]]

\* fs.writeFileSync(CONFIG_PATH, JSON.stringify(o, null, 2))
WriteConfig(o) == ObjectFile(Stringify(o))

\* requiredKeys.every(key => { const value = configFileJSON[key];
\*                             return value && value.trim(); })
\* from key number i on: "true", "false", or "throw" (value.trim is not a function)
RECURSIVE every(_, _)
every(configFileJSON, i) ==
    IF i > Len(requiredKeys) THEN "true"
    ELSE LET value == configFileJSON[requiredKeys[i]] IN
         IF ~Truthy(value) THEN "false"
         ELSE IF value.type /= "string" THEN "throw"
         ELSE IF Truthy(Str(Trim(value.s))) THEN every(configFileJSON, i + 1)
         ELSE "false"

\* The try block of getFirebaseConfig: "valid" / "invalid" is the truth of
\* configExistsAndIsValid when the block completes, "throw" is an exception
\* (JSON.parse of text that is no JSON, a property read on null, trim on a
\* value that is no string), which leaves configExistsAndIsValid false
TryBlock(f) ==
    CASE f.kind \in {"none", "empty"} -> "invalid"
      [] f.kind = "garbage"           -> "throw"
      [] f.kind = "null"              -> "throw"
      [] f.kind = "object"            ->
            LET e == every(f.obj, 1) IN
            IF e = "true" THEN "valid" ELSE IF e = "false" THEN "invalid" ELSE "throw"

configExistsAndIsValid(f) == TryBlock(f) = "valid"

----------------------------------------------------------------------------
(* Paths *)

RECURSIVE LastIndexOf(_, _)
LastIndexOf(s, c) ==
    IF s = <<>> THEN 0
    ELSE IF s[Len(s)] = c THEN Len(s)
    ELSE LastIndexOf(SubSeq(s, 1, Len(s) - 1), c)

StartsWith(s, c) == s /= <<>> /\ Head(s) = c
EndsWith(s, c)   == s /= <<>> /\ s[Len(s)] = c

\* String.prototype.slice(1, -1)
Slice1(s) == SubSeq(s, 2, Len(s) - 1)

\* replace(/\\ /g, ' '): a backslash before a blank is removed
RECURSIVE Unescape(_)
Unescape(s) ==
    IF s = <<>> THEN <<>>
    ELSE IF Len(s) >= 2 /\ s[1] = "\\" /\ s[2] = " " THEN <<" ">> \o Unescape(SubSeq(s, 3, Len(s)))
    ELSE <<Head(s)>> \o Unescape(Tail(s))

\* process.cwd()
Cwd == <<"/", "w">>

\* The segments of a path between its separators
RECURSIVE Segments(_, _)
Segments(s, cur) ==
    IF s = <<>> THEN <<cur>>
    ELSE IF Head(s) = "/" THEN <<cur>> \o Segments(Tail(s), <<>>)
    ELSE Segments(Tail(s), Append(cur, Head(s)))

\* Resolution of the segments of an absolute path: empty and "." segments are
\* dropped, ".." removes the segment before it
RECURSIVE Resolve(_, _)
Resolve(segs, acc) ==
    IF segs = <<>> THEN acc
    ELSE LET g == Head(segs) IN
         IF g = <<>> \/ g = <<".">> THEN Resolve(Tail(segs), acc)
         ELSE IF g = <<".", ".">>
              THEN Resolve(Tail(segs), IF acc = <<>> THEN acc ELSE SubSeq(acc, 1, Len(acc) - 1))
         ELSE Resolve(Tail(segs), Append(acc, g))

RECURSIVE Join(_)
Join(segs) == IF segs = <<>> THEN <<>> ELSE <<"/">> \o Head(segs) \o Join(Tail(segs))

\* path.normalize of an absolute path (POSIX)
Normalize(p) ==
    LET j == Join(Resolve(Segments(p, <<>>), <<>>)) IN
    IF j = <<>> THEN <<"/">>
    ELSE IF EndsWith(p, "/") THEN Append(j, "/") ELSE j

\* path.resolve(process.cwd(), p): normalized, without a trailing separator
PathResolve(p) ==
    LET j == Join(Resolve(Segments(Cwd \o <<"/">> \o p, <<>>), <<>>)) IN
    IF j = <<>> THEN <<"/">> ELSE j

\* function formatFilePath(inputPath)
formatFilePath(inputPath) ==
    LET t == Trim(inputPath)
        u == IF (StartsWith(t, "\"") /\ EndsWith(t, "\"")) \/ (StartsWith(t, "'") /\ EndsWith(t, "'"))
             THEN Trim(Slice1(t)) ELSE t
        v == Unescape(u)
        absoluteFilePath == IF StartsWith(v, "/") THEN v ELSE PathResolve(v)
    IN Normalize(absoluteFilePath)

\* filePath.replace(/^['"]|['"]$/g, '') in uploadFile
StripQuotes(p) ==
    LET a == IF StartsWith(p, "'") \/ StartsWith(p, "\"") THEN Tail(p) ELSE p
    IN IF EndsWith(a, "'") \/ EndsWith(a, "\"") THEN SubSeq(a, 1, Len(a) - 1) ELSE a

\* path.basename(p): what follows the last separator, trailing separators ignored
RECURSIVE Basename(_)
Basename(p) ==
    IF Len(p) > 1 /\ EndsWith(p, "/") THEN Basename(SubSeq(p, 1, Len(p) - 1))
    ELSE SubSeq(p, LastIndexOf(p, "/") + 1, Len(p))

\* path.extname(name): from the last dot on, unless that dot starts the name
Extname(name) ==
    LET i == LastIndexOf(name, ".") IN
    IF i <= 1 THEN <<>> ELSE SubSeq(name, i, Len(name))

\* path.basename(name, ext): name without the suffix ext
BasenameExt(name, ext) ==
    IF ext /= <<>> /\ Len(name) > Len(ext)
       /\ SubSeq(name, Len(name) - Len(ext) + 1, Len(name)) = ext
    THEN SubSeq(name, 1, Len(name) - Len(ext)) ELSE name

\* The decimal digits of a natural number, as the template literal prints it
RECURSIVE Digits(_)
Digits(n) ==
    LET d == <<"0", "1", "2", "3", "4", "5", "6", "7", "8", "9">>[(n % 10) + 1] IN
    IF n < 10 THEN <<d>> ELSE Append(Digits(n \div 10), d)

\* `${path.basename(fileName, path.extname(fileName))}_${timestamp}${path.extname(fileName)}`
fileNameWithDate(path, timestamp) ==
    LET fileName == Basename(path) IN
    BasenameExt(fileName, Extname(fileName)) \o <<"_">> \o Digits(timestamp) \o Extname(fileName)

----------------------------------------------------------------------------
(* The local file system and the inputs *)

\* the regular files and the directories that exist
Files == { <<"/", "w", "/", "a", ".", "b">> }
Directories == { <<"/">>, <<"/", "w">> }

\* fs.existsSync(p)
existsSync(p) ==
    LET q == IF Len(p) > 1 /\ EndsWith(p, "/") THEN SubSeq(p, 1, Len(p) - 1) ELSE p IN
    \/ p \in Files
    \/ q \in Directories

\* fs.readFileSync(p) returns the bytes of a regular file and throws otherwise
readFileSyncThrows(p) == p \notin Files

\* the words of an argument vector
ConfigFlag == <<"-", "-", "c", "o", "n", "f", "i", "g">>
CopyFlag   == <<"-", "c">>
ArgTokens  == { ConfigFlag, CopyFlag, <<"a", ".", "b">>, <<"n", ".", "b">> }
ArgVectors == UNION { [1..n -> ArgTokens] : n \in 0..MaxArgs }

\* Array.prototype.includes
includes(a, w) == \E i \in DOMAIN a : a[i] = w

\* answers to p.confirm: yes or no; a prompt that is cancelled (Ctrl-C)
\* returns the cancel symbol instead
Yes == Bool(TRUE)
No  == Bool(FALSE)
ConfirmAnswers == { Yes, No }

\* texts typed at the 'Enter the path to your file:' prompt
PathSamples ==
    { <<"a", ".", "b">>,
      <<"'", "a", ".", "b", "'", " ">>,
      <<".", ".", "/", "w", "/", "a", ".", "b">>,
      <<"n", ".", "b">>,
      <<"/", "w">> }

\* Persisted records: the required fields hold the string "f", except that at
\* most MaxBad of them are absent, empty, blank or a number; autoCopy is
\* absent, true or false
Defects == { Undefined, Str(<<>>), Str(<<" ">>), Num(7) }
KeyIndex(k) == CHOOSE i \in DOMAIN requiredKeys : requiredKeys[i] = k
PersistedRecords ==
    { [k \in Keys |-> IF k = "autoCopy" THEN ac
                      ELSE IF KeyIndex(k) \in B THEN d[KeyIndex(k)] ELSE Str(<<"f">>)] :
        <<B, d, ac>> \in
          UNION { {<<B, d, ac>> : d \in [B -> Defects], ac \in {Undefined, Yes, No}} :
                  B \in {X \in SUBSET (DOMAIN requiredKeys) : Cardinality(X) <= MaxBad} } }
PersistedFiles ==
    { NoFile, EmptyFile, GarbageFile, NullFile } \cup { ObjectFile(o) : o \in PersistedRecords }

\* Texts pasted at the 'Paste your Firebase configuration object here:' prompt,
\* by their form: the declaration before the object ("firebaseConfig" is
\* 'const firebaseConfig ='), the semicolon after it ("last": the last
\* character, "newline": followed by a line end), the keys ("bare": foo: "x",
\* "tight": foo:"x", "quoted": "foo": "x"), a comma after the last member, and
\* the members.  All of them hold both braces, as the prompt's validate demands.
PastedRecord == [k \in Keys |-> IF k = "autoCopy" THEN Undefined ELSE Str(<<"p">>)]
Pasted(decl, semi, keys, comma, obj) ==
    [decl |-> decl, semi |-> semi, keys |-> keys, comma |-> comma, obj |-> obj]
PasteSamples ==
    { Pasted("firebaseConfig", "last", "bare", FALSE, PastedRecord),
      Pasted("firebaseConfig", "newline", "bare", FALSE, PastedRecord),
      Pasted("other", "last", "bare", FALSE, PastedRecord),
      Pasted("none", "none", "quoted", FALSE, PastedRecord),
      Pasted("none", "none", "tight", FALSE, PastedRecord),
      Pasted("none", "none", "bare", TRUE, PastedRecord),
      Pasted("none", "none", "bare", FALSE, EmptyObject),
      Pasted("firebaseConfig", "last", "bare", FALSE, [PastedRecord EXCEPT !["appId"] = Undefined]),
      Pasted("firebaseConfig", "last", "bare", FALSE, [PastedRecord EXCEPT !["messagingSenderId"] = Num(7)]),
      Pasted("firebaseConfig", "last", "bare", FALSE, [PastedRecord EXCEPT !["autoCopy"] = Yes]) }

\* configString.replace(/const firebaseConfig =/, '').replace(/;$/, '')
\*             .replace(/(\w+):\s/g, '"$1": ').trim()
configJSON(configString) ==
    [configString EXCEPT
        !.decl = IF @ = "firebaseConfig" THEN "none" ELSE @,
        !.semi = IF @ = "last" THEN "none" ELSE IF @ = "newline" THEN "last" ELSE @,
        !.keys = IF @ = "bare" THEN "quoted" ELSE @]

\* JSON.parse(text) throws unless the text is an object with quoted keys and
\* nothing before or after it
JSONParseThrows(text) ==
    ~(text.decl = "none" /\ text.semi = "none" /\ text.keys = "quoted" /\ ~text.comma)

----------------------------------------------------------------------------
(* Output *)

Msg(m) == [msg |-> m, url |-> {}]
Link(m, u) == [msg |-> m, url |-> {u}]

\* the URL getDownloadURL resolves for an object of the bucket
URLOf(object) == [object |-> object]

----------------------------------------------------------------------------
(* The program *)

\* The invocations the model starts from: every argument vector with a file
\* of each kind (none, empty, no JSON, null, a record of six strings), and
\* every persisted file with each argument vector of at most one word.  What
\* getFirebaseConfig does with the file depends on the arguments only through
\* the branch, and the branch on the arguments alone.
PlainFiles ==
    { f \in PersistedFiles :
        f.kind = "object" => \A i \in DOMAIN requiredKeys : f.obj[requiredKeys[i]] = Str(<<"f">>) }
ShortArgVectors == { a \in ArgVectors : Len(a) <= 1 }
Invocations == (ArgVectors \X PlainFiles) \cup (ShortArgVectors \X PersistedFiles)

Init ==
    /\ \E i \in Invocations : args = i[1] /\ file = i[2]
    /\ pc = "main"
    /\ branch = "none"
    /\ config = {}
    /\ prompts = <<>>
    /\ answers = <<>>
    /\ out = <<>>
    /\ exitCode = {}
    /\ writes = 0
    /\ storage = {}
    /\ filePath = <<>>
    /\ storageRef = <<>>
    /\ uploadCalls = 0
    /\ urlCalls = 0
    /\ downloadURL = {}
    /\ clipboard = <<>>
    /\ bucket = <<>>
    /\ clock = 0
    /\ run = 1
    /\ persisted = file
    /\ failed = FALSE

\* process.exit(code), or main() running to its end (code 0)
Exit(code) == pc' = "exit" /\ exitCode' = {code}

\* Dispatch with the existence test placed before the test for --config
DispatchPathFirst(a) ==
    IF Len(a) = 0 THEN "NoArgs"
    ELSE IF existsSync(formatFilePath(a[1])) THEN "FilePathArg"
    ELSE IF includes(a, ConfigFlag) THEN "ConfigFlag"
    ELSE "InvalidPath"

\* Dispatch without the existence test: any first word is taken for a file
DispatchNoExistsCheck(a) ==
    IF Len(a) = 0 THEN "NoArgs"
    ELSE IF includes(a, ConfigFlag) THEN "ConfigFlag"
    ELSE "FilePathArg"

\* The if-chain of main(): the branch an argument vector selects
Dispatch(a) ==
    IF Len(a) = 0 THEN "NoArgs"
    ELSE IF includes(a, ConfigFlag) THEN "ConfigFlag"
    ELSE IF existsSync(formatFilePath(a[1])) THEN "FilePathArg"
    ELSE IF ~existsSync(formatFilePath(a[1])) THEN "InvalidPath"
    ELSE "InvalidCommand"

\* main(), up to its call of getFirebaseConfig or to its end
main ==
    /\ pc = "main"
    /\ branch' = Dispatch(args)
    /\ CASE branch' = "NoArgs" ->
              /\ out' = Append(out, Msg("Welcome!"))
              /\ pc' = "getFirebaseConfig"
              /\ UNCHANGED exitCode
         [] branch' \in {"ConfigFlag", "FilePathArg"} ->
              /\ pc' = "getFirebaseConfig"
              /\ UNCHANGED <<out, exitCode>>
         [] branch' = "InvalidPath" ->
              /\ out' = Append(out, Msg("Invalid file path."))
              /\ Exit(0)
         [] branch' = "InvalidCommand" ->
              /\ out' = Append(out, Msg("Invalid command."))
              /\ Exit(0)
    /\ UNCHANGED <<args, file, config, prompts, answers, writes, storage, filePath,
                   storageRef, uploadCalls, urlCalls, downloadURL, clipboard, bucket,
                   clock, run, persisted, failed>>

\* getFirebaseConfig's parameter
runWithConfigFlag == branch = "ConfigFlag"

\* ConfigHead without 'else if (configExistsAndIsValid) return ...'
ConfigHeadNoReturn(f, flag) ==
    IF TryBlock(f) = "throw" /\ ~flag THEN "exit1"
    ELSE IF flag /\ configExistsAndIsValid(f) THEN "edit"
    ELSE "setup"

\* ConfigHead whose catch block exits whatever the flag
ConfigHeadCatchExits(f, flag) ==
    IF TryBlock(f) = "throw" THEN "exit1"
    ELSE IF flag THEN (IF configExistsAndIsValid(f) THEN "edit" ELSE "setup")
    ELSE IF configExistsAndIsValid(f) THEN "return"
    ELSE "setup"

\* getFirebaseConfig from its start to its first prompt, return or exit:
\*   "exit1"  the catch block's process.exit(1)
\*   "edit"   the 'Do you want to edit it?' confirmation
\*   "return" return JSON.parse(configFileRead)
\*   "setup"  the intro and the 'Are you ready ...?' confirmation
ConfigHead(f, flag) ==
    IF TryBlock(f) = "throw" /\ ~flag THEN "exit1"
    ELSE IF flag THEN (IF configExistsAndIsValid(f) THEN "edit" ELSE "setup")
    ELSE IF configExistsAndIsValid(f) THEN "return"
    ELSE "setup"

\* p.intro(...Firebase Configuration...) and the confirmation that follows it
Setup ==
    /\ out' = Append(out, Msg("Firebase Configuration"))
    /\ prompts' = Append(prompts, "ready")
    /\ pc' = "readyToProceed"

getFirebaseConfig ==
    /\ pc = "getFirebaseConfig"
    /\ LET h == ConfigHead(file, runWithConfigFlag) IN
       CASE h = "exit1" ->
              /\ out' = Append(out, Msg("Invalid Firebase configuration."))
              /\ Exit(1)
              /\ UNCHANGED <<config, prompts>>
         [] h = "edit" ->
              /\ prompts' = Append(prompts, "edit")
              /\ pc' = "shouldEditConfig"
              /\ UNCHANGED <<config, out, exitCode>>
         [] h = "return" ->
              /\ config' = {file.obj}
              /\ pc' = "resolved"
              /\ UNCHANGED <<prompts, out, exitCode>>
         [] h = "setup" ->
              /\ Setup
              /\ UNCHANGED <<config, exitCode>>
    /\ UNCHANGED <<args, file, branch, answers, writes, storage, filePath, storageRef,
                   uploadCalls, urlCalls, downloadURL, clipboard, bucket, clock, run, persisted, failed>>

\* const configFileJSON is declared inside the try block, so the name is not
\* in scope at 'return configFileJSON' after it: evaluating it throws a
\* ReferenceError, which main()'s catch turns into process.exit(0)
configFileJSONInScope == FALSE

\* The answer to 'Existing Firebase configuration found. Do you want to edit it?'
shouldEditConfig(a) ==
    /\ pc = "shouldEditConfig"
    /\ answers' = Append(answers, a)
    /\ IF ~Truthy(a)
       THEN /\ out' = Append(out, Msg("Using existing Firebase configuration."))
            /\ IF configFileJSONInScope
               THEN config' = {file.obj} /\ pc' = "resolved" /\ UNCHANGED exitCode
               ELSE Exit(0) /\ UNCHANGED config
            /\ UNCHANGED prompts
       ELSE /\ Setup
            /\ UNCHANGED <<config, exitCode>>
    /\ UNCHANGED <<args, file, branch, writes, storage, filePath, storageRef,
                   uploadCalls, urlCalls, downloadURL, clipboard, bucket, clock, run, persisted, failed>>

\* The answer to 'Are you ready to enter your Firebase configuration details?'
readyToProceed(a) ==
    /\ pc = "readyToProceed"
    /\ answers' = Append(answers, a)
    /\ IF ~Truthy(a)
       THEN Exit(0) /\ UNCHANGED prompts
       ELSE /\ prompts' = Append(prompts, "paste")
            /\ pc' = "configString"
            /\ UNCHANGED exitCode
    /\ UNCHANGED <<args, file, branch, config, out, writes, storage, filePath, storageRef,
                   uploadCalls, urlCalls, downloadURL, clipboard, bucket, clock, run, persisted, failed>>

\* The value getFirebaseConfig stores and returns for a parsed paste
NewConfig(parsed) == [parsed EXCEPT !["autoCopy"] = No]

\* The text pasted at 'Paste your Firebase configuration object here:'
configString(text) ==
    /\ pc = "configString"
    /\ answers' = Append(answers, Str(<<"text">>))
    /\ IF JSONParseThrows(configJSON(text))
       THEN /\ out' = Append(out, Msg("Invalid format. Please try again."))
            /\ Exit(1)
            /\ UNCHANGED <<file, writes, config>>
       ELSE /\ file' = WriteConfig(NewConfig(configJSON(text).obj))
            /\ writes' = writes + 1
            /\ config' = {NewConfig(configJSON(text).obj)}
            /\ pc' = "resolved"
            /\ UNCHANGED <<out, exitCode>>
    /\ UNCHANGED <<args, branch, prompts, storage, filePath, storageRef,
                   uploadCalls, urlCalls, downloadURL, clipboard, bucket, clock, run, persisted, failed>>

\* A text prompt answered with the cancel symbol: the string method called on
\* it (replace, trim) is not a function; main()'s catch exits with code 0
textCancelled ==
    /\ pc \in {"configString", "filePath"}
    /\ answers' = Append(answers, Cancel)
    /\ Exit(0)
    /\ UNCHANGED <<args, file, branch, config, prompts, out, writes, storage, filePath,
                   storageRef, uploadCalls, urlCalls, downloadURL, clipboard, bucket,
                   clock, run, persisted, failed>>

\* uploadFile(p, storage) up to its await of uploadBytes; fs.readFileSync
\* throwing ends in main()'s catch
uploadFile(p) ==
    /\ filePath' = StripQuotes(p)
    /\ storageRef' = fileNameWithDate(filePath', clock)
    /\ IF readFileSyncThrows(filePath')
       THEN Exit(0) /\ UNCHANGED uploadCalls
       ELSE /\ uploadCalls' = uploadCalls + 1
            /\ pc' = "uploadBytes"
            /\ UNCHANGED exitCode

\* initializeApp(config); getStorage(app)
initializeApp == storage' = config

\* main() after getFirebaseConfig has returned
resolved ==
    /\ pc = "resolved"
    /\ CASE branch = "NoArgs" ->
              /\ initializeApp
              /\ prompts' = Append(prompts, "path")
              /\ pc' = "filePath"
              /\ UNCHANGED <<filePath, storageRef, uploadCalls, exitCode>>
         [] branch = "ConfigFlag" ->
              /\ prompts' = Append(prompts, "autoCopy")
              /\ pc' = "shouldAutoCopy"
              /\ UNCHANGED <<storage, filePath, storageRef, uploadCalls, exitCode>>
         [] branch = "FilePathArg" ->
              /\ initializeApp
              /\ uploadFile(formatFilePath(args[1]))
              /\ UNCHANGED prompts
    /\ UNCHANGED <<args, file, branch, config, answers, out, writes, urlCalls,
                   downloadURL, clipboard, bucket, clock, run, persisted, failed>>

\* The text typed at 'Enter the path to your file:'
enterFilePath(text) ==
    /\ pc = "filePath"
    /\ answers' = Append(answers, Str(text))
    /\ IF ~existsSync(formatFilePath(text))
       THEN /\ out' = Append(out, Msg("Invalid file path."))
            /\ Exit(1)
            /\ UNCHANGED <<filePath, storageRef, uploadCalls>>
       ELSE /\ uploadFile(formatFilePath(text))
            /\ UNCHANGED out
    /\ UNCHANGED <<args, file, branch, config, prompts, writes, storage, urlCalls,
                   downloadURL, clipboard, bucket, clock, run, persisted, failed>>

\* uploadFailed without its process.exit(1): the run ends with code 0
uploadFailedExit0 ==
    /\ out' = out \o << Msg("Failed to upload file."), Msg("console.error") >>
    /\ Exit(0)

\* The catch block of uploadFile
uploadFailed ==
    /\ out' = out \o << Msg("Failed to upload file."), Msg("console.error") >>
    /\ Exit(1)

\* uploadBytes settles: the object is stored, or the call fails
uploadBytes(ok) ==
    /\ pc = "uploadBytes"
    /\ failed' = ~ok
    /\ IF ok
       THEN /\ bucket' = Append(bucket, storageRef)
            /\ urlCalls' = urlCalls + 1
            /\ pc' = "getDownloadURL"
            /\ UNCHANGED <<out, exitCode>>
       ELSE /\ uploadFailed
            /\ UNCHANGED <<bucket, urlCalls>>
    /\ UNCHANGED <<args, file, branch, config, prompts, answers, writes, storage,
                   filePath, storageRef, uploadCalls, downloadURL, clipboard, clock, run, persisted>>

\* copyRequested that looks at the flag only
copyRequestedFlagOnly(a, c) == includes(a, CopyFlag)

\* args.includes('-c') || config.autoCopy
copyRequested(a, c) == includes(a, CopyFlag) \/ \E o \in c : Truthy(o["autoCopy"])

\* getDownloadURL settles; on success uploadFile returns the URL and main()
\* prints it, after copying it if asked to
getDownloadURL(ok) ==
    /\ pc = "getDownloadURL"
    /\ failed' = ~ok
    /\ IF ok
       THEN /\ downloadURL' = {URLOf(storageRef)}
            /\ IF copyRequested(args, config)
               THEN /\ clipboard' = Append(clipboard, URLOf(storageRef))
                    /\ out' = out \o << Msg("File uploaded successfully!"),
                                        Link("copied to the clipboard and hosted at", URLOf(storageRef)) >>
               ELSE /\ out' = out \o << Msg("File uploaded successfully!"),
                                        Link("hosted at", URLOf(storageRef)) >>
                    /\ UNCHANGED clipboard
            /\ Exit(0)
       ELSE /\ uploadFailed
            /\ UNCHANGED <<downloadURL, clipboard>>
    /\ UNCHANGED <<args, file, branch, config, prompts, answers, writes, storage,
                   filePath, storageRef, uploadCalls, urlCalls, bucket, clock, run, persisted>>

\* The answer to 'Do you want to always automatically copy permalinks ...?':
\* config.autoCopy = shouldAutoCopy, then the record is written
shouldAutoCopy(a) ==
    /\ pc = "shouldAutoCopy"
    /\ answers' = Append(answers, a)
    /\ config' = { [o EXCEPT !["autoCopy"] = a] : o \in config }
    /\ file' = WriteConfig(CHOOSE o \in config' : TRUE)
    /\ writes' = writes + 1
    /\ out' = Append(out, Msg("Settings updated successfully!"))
    /\ Exit(0)
    /\ UNCHANGED <<args, branch, prompts, storage, filePath, storageRef, uploadCalls,
                   urlCalls, downloadURL, clipboard, bucket, clock, run, persisted, failed>>

\* A confirmation answered with the cancel symbol, which the code does not
\* tell from an answer: it is truthy
confirmCancelled ==
    \/ shouldEditConfig(Cancel)
    \/ readyToProceed(Cancel)
    \/ shouldAutoCopy(Cancel)

Next ==
    \/ main
    \/ getFirebaseConfig
    \/ \E a \in ConfirmAnswers : shouldEditConfig(a)
    \/ \E a \in ConfirmAnswers : readyToProceed(a)
    \/ \E text \in PasteSamples : configString(text)
    \/ textCancelled
    \/ resolved
    \/ \E text \in PathSamples : enterFilePath(text)
    \/ \E ok \in BOOLEAN : uploadBytes(ok)
    \/ \E ok \in BOOLEAN : getDownloadURL(ok)
    \/ \E a \in ConfirmAnswers : shouldAutoCopy(a)
    \/ confirmCancelled

Spec == Init /\ [][Next]_vars

----------------------------------------------------------------------------
(* Successive invocations *)

\* The tool is started again after an invocation has ended: the file, the
\* bucket and the clock stay, everything else starts afresh
Restart ==
    /\ pc = "exit"
    /\ run < MaxRuns
    /\ run' = run + 1
    /\ args' \in ArgVectors
    /\ persisted' = file
    /\ pc' = "main"
    /\ branch' = "none"
    /\ config' = {}
    /\ prompts' = <<>>
    /\ answers' = <<>>
    /\ out' = <<>>
    /\ exitCode' = {}
    /\ writes' = 0
    /\ storage' = {}
    /\ filePath' = <<>>
    /\ storageRef' = <<>>
    /\ uploadCalls' = 0
    /\ urlCalls' = 0
    /\ downloadURL' = {}
    /\ clipboard' = <<>>
    /\ failed' = FALSE
    /\ UNCHANGED <<file, bucket, clock>>

\* A millisecond passes
Tick ==
    /\ clock < MaxClock
    /\ clock' = clock + 1
    /\ UNCHANGED <<args, file, pc, branch, config, prompts, answers, out, exitCode,
                   writes, storage, filePath, storageRef, uploadCalls, urlCalls,
                   downloadURL, clipboard, bucket, run, persisted, failed>>

\* A first invocation on a machine that has no configuration file yet
InitRepeat == Init /\ file = NoFile

NextRepeat == Next \/ Restart \/ Tick

SpecRepeat == InitRepeat /\ [][NextRepeat]_vars

----------------------------------------------------------------------------
(* Properties *)

NonEmptyString(v) == v.type = "string" /\ v.s /= <<>>
NonBlankString(v) == v.type = "string" /\ Trim(v.s) /= <<>>
AllSixNonEmpty(o) == \A i \in DOMAIN requiredKeys : NonEmptyString(o[requiredKeys[i]])
AllSixNonBlank(o) == \A i \in DOMAIN requiredKeys : NonBlankString(o[requiredKeys[i]])

\* a required field is absent, or an empty or blank string
LacksField(o) ==
    \E i \in DOMAIN requiredKeys :
        \/ o[requiredKeys[i]] = Undefined
        \/ o[requiredKeys[i]].type = "string" /\ Trim(o[requiredKeys[i]].s) = <<>>

\* getFirebaseConfig has been called and has reached its first prompt, its
\* return or an exit
Resolving ==
    branch \in {"NoArgs", "ConfigFlag", "FilePathArg"} /\ pc \notin {"main", "getFirebaseConfig"}

\* the prompts of getFirebaseConfig
ConfigPrompts == {"edit", "ready", "paste"}
NoConfigPrompt == \A i \in DOMAIN prompts : prompts[i] \notin ConfigPrompts
Printed(m) == \E i \in DOMAIN out : out[i].msg = m
SetupEntered == prompts /= <<>> /\ prompts[1] = "ready" /\ Printed("Firebase Configuration")
DeclinedEdit ==
    prompts /= <<>> /\ prompts[1] = "edit" /\ answers /= <<>> /\ answers[1] = No
Resolves(w) == existsSync(formatFilePath(w))

\* C1 (as claimed): with --config and a valid persisted configuration, once
\* 'edit existing?' has been answered no, getFirebaseConfig has returned the
\* persisted record, and a finished run has shown the auto-copy prompt,
\* written the record and printed 'Settings updated successfully!'.
C1_DeclineReturnsExisting ==
    DeclinedEdit =>
        /\ config /= {}
        /\ \A o \in config : \A i \in DOMAIN requiredKeys :
              o[requiredKeys[i]] = persisted.obj[requiredKeys[i]]
        /\ pc = "exit" =>
              /\ includes(prompts, "autoCopy")
              /\ writes = 1
              /\ Printed("Settings updated successfully!")

\* C2 (as claimed): for a persisted record whose six required fields are
\* non-empty strings, getFirebaseConfig returns that record, issues no prompt
\* and does not write the file.
C2_NonEmptyReturnsUnprompted ==
    (Resolving /\ persisted.kind = "object" /\ AllSixNonEmpty(persisted.obj)) =>
        /\ config = {persisted.obj}
        /\ NoConfigPrompt
        /\ writes = 0

\* C2 (amended): called without the --config flag, for a persisted record
\* whose six required fields are strings that are not blank, getFirebaseConfig
\* returns that record, issues no prompt and leaves the file as it was.
C2_NonBlankReturnsUnprompted ==
    (Resolving /\ ~runWithConfigFlag /\ persisted.kind = "object" /\ AllSixNonBlank(persisted.obj)) =>
        /\ config = {persisted.obj}
        /\ NoConfigPrompt
        /\ writes = 0
        /\ file = persisted

C2_Witness ==
    /\ pc = "resolved"
    /\ branch = "FilePathArg"
    /\ persisted.kind = "object"
    /\ AllSixNonBlank(persisted.obj)
    /\ config = {persisted.obj}

\* C3 (as claimed): with no persisted file, or a persisted record in which a
\* required field is absent, empty or blank, getFirebaseConfig goes straight
\* to interactive setup, with or without the --config flag: its first prompt
\* is the 'ready?' confirmation.
C3_LackingEntersSetup ==
    (Resolving /\ (persisted.kind = "none" \/ (persisted.kind = "object" /\ LacksField(persisted.obj)))) =>
        SetupEntered

\* C4 (as claimed): a persisted file that is no JSON leads to interactive
\* setup, with or without the --config flag.
C4_GarbageEntersSetup ==
    (Resolving /\ persisted = GarbageFile) => SetupEntered

\* C4 (amended): a persisted file that is no JSON leads to interactive setup
\* when getFirebaseConfig is called with the --config flag; without the flag
\* the run prints 'Invalid Firebase configuration.' and ends with exit code 1,
\* without a prompt and without writing the file.
C4_GarbageSetupOrExit ==
    (Resolving /\ persisted = GarbageFile) =>
        IF runWithConfigFlag
        THEN SetupEntered
        ELSE /\ pc = "exit"
             /\ exitCode = {1}
             /\ prompts = <<>>
             /\ out[Len(out)] = Msg("Invalid Firebase configuration.")
             /\ writes = 0
             /\ file = persisted

C4_Witness ==
    /\ persisted = GarbageFile
    /\ runWithConfigFlag
    /\ pc = "readyToProceed"
    /\ prompts = <<"ready">>

\* C5: a single argument that is not --config and does not resolve to an
\* existing path ends the run with 'Invalid file path.' as its only output:
\* no configuration is resolved, no prompt issued, no storage client
\* initialized, no upload or URL fetch called.
C5_InvalidPathEndsRun ==
    (Len(args) = 1 /\ args[1] /= ConfigFlag /\ ~Resolves(args[1]) /\ pc /= "main") =>
        /\ pc = "exit"
        /\ out = << Msg("Invalid file path.") >>
        /\ prompts = <<>>
        /\ config = {}
        /\ storage = {}
        /\ uploadCalls = 0
        /\ urlCalls = 0
        /\ writes = 0
        /\ file = persisted

C5_Witness ==
    /\ args = << <<"n", ".", "b">> >>
    /\ pc = "exit"
    /\ out = << Msg("Invalid file path.") >>

\* C6: once uploadBytes or getDownloadURL has failed, the process has ended
\* with exit code 1, uploadBytes was called once, and no link was printed or
\* copied.
C6_UploadFailureExits1 ==
    failed =>
        /\ pc = "exit"
        /\ exitCode = {1}
        /\ uploadCalls = 1
        /\ downloadURL = {}
        /\ clipboard = <<>>
        /\ \A i \in DOMAIN out : out[i].url = {}

C6_Witness ==
    /\ failed
    /\ urlCalls = 1
    /\ exitCode = {1}

\* C7 (as claimed): an upload of a.b at clock value T goes to a_T.b, and no
\* two uploads go to the same object name.
C7_DistinctDestinations ==
    /\ pc \in {"uploadBytes", "getDownloadURL"} =>
          \E T \in 0..clock : storageRef = <<"a", "_">> \o Digits(T) \o <<".", "b">>
    /\ \A i, j \in DOMAIN bucket : i /= j => bucket[i] /= bucket[j]

\* C8: the clipboard is written exactly when an upload has returned its URL
\* and the arguments hold -c or the resolved configuration's autoCopy is
\* true; it is written once, with that URL.
C8_ClipboardIffRequested ==
    /\ clipboard /= <<>> <=>
          /\ downloadURL /= {}
          /\ includes(args, CopyFlag) \/ \E o \in config : o["autoCopy"] = Yes
    /\ Len(clipboard) <= 1
    /\ \A i \in DOMAIN clipboard : downloadURL = {clipboard[i]}
    /\ downloadURL /= {} => downloadURL = {URLOf(bucket[Len(bucket)])}

C8_Witness ==
    /\ clipboard /= <<>>
    /\ ~includes(args, CopyFlag)
    /\ pc = "exit"

\* C9 (as claimed): every configuration handed to initializeApp has all six
\* required fields present as non-empty strings.
C9_StorageConfigValidated ==
    \A o \in storage : AllSixNonEmpty(o)

\* C10: the dispatch takes one branch and never InvalidCommand: no arguments
\* go to NoArgs; arguments without --config go to FilePathArg when the first
\* one resolves to an existing path and to InvalidPath when it does not, the
\* -c flag in first place included; arguments holding --config anywhere go to
\* ConfigFlag, and that run initializes no storage client and uploads nothing.
C10_DispatchBranches ==
    pc /= "main" =>
        /\ branch \in {"NoArgs", "ConfigFlag", "FilePathArg", "InvalidPath"}
        /\ branch = "NoArgs" <=> args = <<>>
        /\ branch = "ConfigFlag" <=> includes(args, ConfigFlag)
        /\ (args /= <<>> /\ ~includes(args, ConfigFlag)) =>
              branch = IF Resolves(args[1]) THEN "FilePathArg" ELSE "InvalidPath"
        /\ includes(args, ConfigFlag) =>
              storage = {} /\ uploadCalls = 0 /\ urlCalls = 0 /\ bucket = <<>>

C10_Witness ==
    /\ pc = "exit"
    /\ Len(args) = 2
    /\ Resolves(args[1])
    /\ args[2] = ConfigFlag
    /\ branch = "ConfigFlag"
    /\ Printed("Settings updated successfully!")

====
